---- MODULE Spec2Model ----
(***************************************************************************)
(* Model of the ephemeral file hosting subsystem of the bot:               *)
(*   app/web/file_registry.py  (FileRegistry: register/get/consume/        *)
(*                              _remove/cleanup_expired)                   *)
(*   app/web/server.py         (the /download, /preview, /files handlers)  *)
(*   app/bot/handlers/youtube/callbacks.py (the flow that produces and     *)
(*                              registers the hosted files)                *)
(*                                                                         *)
(* Everything runs on one asyncio event loop.  A step of the model is the  *)
(* code a coroutine runs between two suspension points.  Acquiring the     *)
(* uncontended asyncio.Lock does not suspend, and no coroutine awaits      *)
(* while holding it, so `async with self._lock` never yields; the awaits   *)
(* that do yield are the aiofiles calls (run in the executor), the         *)
(* response writes and the chat API calls.                                 *)
(***************************************************************************)
EXTENDS Integers, Sequences, FiniteSets, TLC

\* ---------------------------------------------------------------- bounds
MaxTokens == 2      \* number of register() calls in a behaviour
NReq      == 2      \* number of HTTP requests in a behaviour
MaxTicks  == 2      \* number of clock advances in a behaviour
NChunks   == 2      \* number of 512 KB chunks of a hosted file
NSessions == 2      \* number of chat sessions (users)
PercentStep == 10   \* granularity of the percentages yt-dlp reports
NHandlers == 2      \* concurrent selection-callback tasks of one chat

\* ------------------------------------------------------- program constants
FILE_EXPIRY_SECONDS == 1800
MAX_FILE_SIZE       == 52428800
LoopThreshold       == 20    \* `>= 20` in update_progress_loop (video)
AudioLoopThreshold  == 2     \* `>= 2` in update_progress_loop (audio)
CallbackThreshold   == 5     \* `>= 5` in create_progress_callback
FullPercent         == 100   \* `percent >= 100`
NothingReported     == -1    \* `last_percent = [-1]`
RateLimit           == 1     \* ThrottlingMiddleware(rate_limit=1)

\* ------------------------------------------------------------ input sets
Videos    == {"va", "vb"}
Qualities == {360, 720}

\* f'{self.temp_dir}/{video_id}_{quality}p.mp4'
OutputPath(v, q) == <<v, q>>

Paths == {OutputPath(v, q) : v \in Videos, q \in Qualities}

\* size of the file yt-dlp produces for a video at a quality: the 720p
\* rendition is one byte over the inline limit, the 360p one exactly at it
ProducedSize(p) == IF p[2] = 720 THEN MAX_FILE_SIZE + 1 ELSE MAX_FILE_SIZE

Tokens == 1..MaxTokens
Reqs   == 1..NReq
Handlers == 1..NHandlers
Sessions == 1..NSessions

VARIABLES
    now,        \* datetime.utcnow(), in seconds
    entries,    \* every FileEntry object created so far, by token
    map,        \* keys of FileRegistry._entries
    disk,       \* paths at which a file exists
    req,        \* the HTTP request handlers (coroutines) and their position
    sweep,      \* the cleanup_expired coroutine
    rmCalls,    \* per token: os.remove calls issued by consume / by _remove
    sess,       \* the chat sessions: FSM state and data, download handler
    regArgs,    \* per token: the arguments register() was called with
    prog,       \* a download with its progress reporting task
    chat        \* one chat's FSM storage and its selection-callback tasks

vars == <<now, entries, map, disk, req, sweep, rmCalls, sess, regArgs, prog,
          chat>>

\* kind:   "files" | "preview" | "page", the route of the request
\* tok:    the token of the URL
\* pc:     where the handler is suspended ("done": it has returned)
\* sent:   chunks written to the response so far
\* status: status of the response (0: none yet)
\* got:    what registry.get returned ("none": not yet)
\* t0:     the time at which the handler called registry.get
\* after:  a /files handler for tok had returned from a complete stream
\*         when this request arrived
\* retry:  a /files handler for tok had returned from an interrupted
\*         stream when this request arrived
\* err:    how the os.remove issued for this request ended
\* body:   the body of the response: a template, a literal text, or the
\*         file ("attachment": streamed by /files, "file": a FileResponse)
\* btn:    the rendered landing page holds the audio sibling's button
IdleReq == [kind |-> "none", tok |-> 0, pc |-> "idle", sent |-> 0,
            status |-> 0, t0 |-> 0, got |-> "none", after |-> FALSE,
            retry |-> FALSE, err |-> "none", body |-> "none", btn |-> FALSE]

\* pc:      where cleanup_expired is suspended ("idle": it has returned and
\*          _cleanup_loop sleeps)
\* todo:    the rest of the `expired` list, the first being the entry whose
\*          _remove is in progress
\* count:   the local `count`, which the last call returned when idle
\* removed: how many entries the pops of this call took out of the map
IdleSweep == [pc |-> "idle", todo |-> <<>>, count |-> 0, removed |-> 0]

\* state:     the FSM state of the chat ("none" after state.clear())
\* cancelled: the `cancelled` key of the FSM data
\* video:     the video of the stored url / video_info
\* pc:        where the session's download handler is suspended
\* path:      the file_path the download returned
\* asked:     the user pressed Cancel while the download call of the
\*            handler was running (history)
NoSession == [state |-> "none", cancelled |-> FALSE, video |-> "none",
              pc |-> "idle", path |-> <<>>, asked |-> FALSE]

\* The download call of a downloader and the progress callback it is given:
\* kind:        which downloader runs ("video" or "audio")
\* pc:          position of its download()
\* percent:     progress_state['percent']
\* downloading: progress_state['downloading']
\* task:        the task running update_progress_loop
\* last:        last_percent of update_progress_loop
\* current:     current_percent of update_progress_loop
\* late:        the loop invoked the callback after download had ended
\*              (history)
\* called:      the value the loop passed to the callback last (history)
\* cb_err:      "raised" after a callback call of the loop raised, "retried"
\*              once the loop has called the callback again since (history)
\* cb:          the closure create_progress_callback returned ("none": not
\*              created, "plain": without state, "state": with the FSM state)
\* cb_last:     last_percent[0] of the closure
\* stopped:     stopped[0] of the closure
\* emitted:     the last value the closure was called with (history)
\* edit:        the Bot API request safe_edit_message is waiting for
\*              ("none", "caption": edit_caption, "text": edit_text)
\* shown:       the values of the emitted series that were passed to
\*              update_download_progress (history)
NoProgress ==
    [kind |-> "none",
     pc |-> "idle", percent |-> 0, downloading |-> FALSE, task |-> "none",
     last |-> NothingReported, current |-> 0, late |-> FALSE,
     called |-> NothingReported, cb_err |-> "none",
     cb |-> "none", cb_last |-> NothingReported, stopped |-> FALSE,
     emitted |-> -1, edit |-> "none", shown |-> {}]

\* The FSM storage of one chat and the tasks that handle its format
\* selection callbacks:
\* state:    the FSM state
\* data:     video_info and url are in the FSM data
\* requests: the callback queries of the user in the throttle cache
\* pc:       per task, where youtube_quality_callback /
\*           youtube_audio_callback is suspended
\* dl:       per task, ctx.download_type
NoChat ==
    [state |-> "none", data |-> FALSE, requests |-> 0,
     pc |-> [h \in Handlers |-> "idle"],
     dl |-> [h \in Handlers |-> "none"]]

Init ==
    /\ now = 0
    /\ entries = <<>>
    /\ map = {}
    /\ disk = {}
    /\ req = [r \in Reqs |-> IdleReq]
    /\ sweep = IdleSweep
    /\ rmCalls = <<>>
    /\ sess = [s \in Sessions |-> NoSession]
    /\ regArgs = <<>>
    /\ prog = NoProgress
    /\ chat = NoChat

\* ------------------------------------------------------------- registry

\* mutant: register ignores expires_seconds and uses the default lifetime
FileEntryDefaultTtl(p, filename, size, ctype, created, ttl, audio) ==
    [file_path    |-> p,
     filename     |-> filename,
     file_size    |-> size,
     content_type |-> ctype,
     created_at   |-> created,
     expires_at   |-> created + FILE_EXPIRY_SECONDS,
     audio_token  |-> audio,
     consumed     |-> FALSE]

\* FileEntry(token=..., ...): the dataclass instance register builds; the
\* token is the index of the entry, audio_token 0 is None
FileEntry(p, filename, size, ctype, created, ttl, audio) ==
    [file_path    |-> p,
     filename     |-> filename,
     file_size    |-> size,
     content_type |-> ctype,
     created_at   |-> created,
     expires_at   |-> created + ttl,
     audio_token  |-> audio,
     consumed     |-> FALSE]

\* FileRegistry.register: a fresh uuid4 token, the entry stored under it
RegisterEntry(p, filename, size, ctype, ttl, audio) ==
    LET token == Len(entries) + 1 IN
    /\ entries' = Append(entries,
                    FileEntry(p, filename, size, ctype, now, ttl, audio))
    /\ map' = map \cup {token}
    /\ rmCalls' = Append(rmCalls, [consume |-> 0, expiry |-> 0, wins |-> 0])
    /\ regArgs' = Append(regArgs,
                    [file_path |-> p, filename |-> filename,
                     file_size |-> size, content_type |-> ctype,
                     expires_seconds |-> ttl, audio_token |-> audio,
                     at |-> now])

\* display_name = f"{safe_title}_{ctx.quality}p{ext}"
DisplayName(p) == <<"title", p[1], p[2], "mp4">>

\* the register call of check_file_size: no audio_token is passed
Register(p) ==
    RegisterEntry(p, DisplayName(p), ProducedSize(p), "video",
                  FILE_EXPIRY_SECONDS, 0)

\* mutant: the expiry test includes the instant of expiry
ExpiredAtInstant(e, t) == t >= e.expires_at

\* `datetime.utcnow() > entry.expires_at`
Expired(e, t) == t > e.expires_at

\* mutant: consume does not test the consumed flag
ConsumeSkipsUnknownOnly(tok) == tok \notin map

\* `if entry is None or entry.consumed: return` in consume
ConsumeSkips(tok) == tok \notin map \/ entries[tok].consumed

\* mutant: _remove only drops the bookkeeping
RemoveDeletesNothing(e) == FALSE

\* `if not entry.consumed:` in _remove
RemoveDeletes(e) == ~e.consumed

\* mutant: get leaves the expiry to the sweep
GetOutcomeSweepOnly(tok) == IF tok \notin map THEN "absent" ELSE "entry"

\* what get(token) does up to its first suspension:
\*   "absent"  - returned None without any file I/O
\*   "remove"  - expired, popped, now deleting the file (suspended)
\*   "entry"   - returned the entry
GetOutcome(tok) ==
    IF tok \notin map THEN "absent"
    ELSE IF Expired(entries[tok], now)
         THEN IF RemoveDeletes(entries[tok]) THEN "remove" ELSE "absent"
         ELSE "entry"

\* mutant: get drops every entry it looks up
GetMapAlwaysPops(tok) == map \ {tok}

\* the entry map after get(token) ran up to its first suspension
GetMap(tok) ==
    IF tok \in map /\ Expired(entries[tok], now) THEN map \ {tok} ELSE map

\* os.remove(path) run in the executor: removes the file, or fails with an
\* OSError (which both callers catch); a missing file is FileNotFoundError
OsRemove(p, ok) ==
    IF p \in disk /\ ok THEN disk \ {p} ELSE disk

RemoveFailed(p, ok) == ~(p \in disk /\ ok)

\* `except OSError as e: logger.warning(...)` in consume and in _remove
OnOSError(failed) == IF failed THEN "logged" ELSE "none"

\* ------------------------------------------------------- HTTP handlers
\* Requests take the handler slots in order: the slots are interchangeable.
CanStart(r) ==
    /\ req[r].pc = "idle"
    /\ \A q \in Reqs : q < r => req[q].pc # "idle"

\* some /files handler for tok has returned after streaming the whole file
FullyServed(tok) ==
    \E q \in Reqs : /\ req[q].kind = "files" /\ req[q].tok = tok
                    /\ req[q].pc = "done" /\ req[q].sent = NChunks

\* some /files handler for tok has returned from an interrupted stream
Interrupted(tok) ==
    \E q \in Reqs : /\ req[q].kind = "files" /\ req[q].tok = tok
                    /\ req[q].pc = "done" /\ req[q].status = 200
                    /\ req[q].sent < NChunks

Begin(r, kind, tok) ==
    [req[r] EXCEPT !.kind = kind, !.tok = tok, !.t0 = now,
                   !.after = FullyServed(tok), !.retry = Interrupted(tok)]

Answer(rec, got, status, body) ==
    [rec EXCEPT !.pc = "done", !.got = got, !.status = status,
                !.body = body]

\* mutant: an unresolved token surfaces as an internal error
UnresolvedAsError(rec) == Answer(rec, "absent", 500, "none")

\* `if entry is None:` of the three handlers (get returned None)
Unresolved(rec) ==
    IF rec.kind = "preview" THEN Answer(rec, "absent", 404, "Not available.")
    ELSE Answer(rec, "absent", 404, "expired.html")

\* mutant: the handlers do not test the consumed flag
AnswersGoneNever(e) == FALSE

\* `if entry.consumed:` in _handle_file_download and _handle_download_page:
\* a consumed entry is answered 410
AnswersGone(e) == e.consumed

\* `if entry is None or entry.consumed:` in _handle_preview, for an entry
PreviewRefuses(e) == e.consumed

\* the handler's code after `entry = await registry.get(token)` returned an
\* entry, up to its next suspension
FilesResolved(rec, e) ==
    IF AnswersGone(e) THEN Answer(rec, "entry", 410, "consumed.html")
    ELSE IF e.file_path \notin disk
         THEN Answer(rec, "entry", 404, "File no longer available.")
    ELSE [rec EXCEPT !.pc = "open", !.got = "entry", !.status = 200,
                     !.body = "attachment"]

PreviewResolved(rec, e) ==
    IF PreviewRefuses(e) THEN Answer(rec, "entry", 404, "Not available.")
    ELSE IF e.file_path \notin disk
         THEN Answer(rec, "entry", 404, "File no longer available.")
    ELSE Answer(rec, "entry", 200, "file")

\* mutant: the button is rendered for a consumed sibling as well
AudioButtonIgnoresConsumed(e, ae) == e.content_type = "video"

\* `if is_video and audio_entry and not audio_entry.consumed:` in
\* _render_page, for an audio_entry that is not None
AudioButton(e, ae) == e.content_type = "video" /\ ~ae.consumed

\* web.Response(content_type="text/html", text=_render_page(...))
Rendered(rec, btn) ==
    [Answer(rec, "entry", 200, "download.html") EXCEPT !.btn = btn]

\* the token the landing page looks up after the entry resolved (0: none):
\* `if entry.audio_token: audio_entry = await registry.get(...)`
Sibling(kind, tok) ==
    IF kind = "page" /\ GetOutcome(tok) = "entry"
                     /\ ~AnswersGone(entries[tok])
    THEN entries[tok].audio_token ELSE 0

PageResolved(rec, e) ==
    IF AnswersGone(e) THEN Answer(rec, "entry", 410, "consumed.html")
    ELSE IF e.audio_token = 0 THEN Rendered(rec, FALSE)
    ELSE CASE GetOutcome(e.audio_token) = "absent" -> Rendered(rec, FALSE)
           [] GetOutcome(e.audio_token) = "remove" ->
                  [rec EXCEPT !.pc = "pa_exists", !.got = "entry"]
           [] GetOutcome(e.audio_token) = "entry" ->
                  Rendered(rec, AudioButton(e, entries[e.audio_token]))

Resolved(rec, e) ==
    CASE rec.kind = "files"   -> FilesResolved(rec, e)
      [] rec.kind = "preview" -> PreviewResolved(rec, e)
      [] rec.kind = "page"    -> PageResolved(rec, e)

\* a handler is entered and runs up to its first suspension
Handle(r, kind, tok) ==
    /\ CanStart(r)
    /\ LET rec == Begin(r, kind, tok)
           out == GetOutcome(tok)
           sib == Sibling(kind, tok)
       IN  /\ map' = IF sib # 0 THEN GetMap(sib) ELSE GetMap(tok)
           /\ req' = [req EXCEPT ![r] =
                  CASE out = "absent" -> Unresolved(rec)
                    [] out = "remove" -> [rec EXCEPT !.pc = "rm_exists"]
                    [] out = "entry"  -> Resolved(rec, entries[tok])]
    /\ UNCHANGED <<chat, now, entries, disk, sweep, rmCalls, regArgs, sess, prog>>

\* mutant: a preview that is served marks the entry consumed
HandlePreviewConsuming(r) ==
    \E tok \in Tokens :
        /\ CanStart(r)
        /\ LET rec == Begin(r, "preview", tok)
               out == GetOutcome(tok)
           IN  /\ map' = GetMap(tok)
               /\ req' = [req EXCEPT ![r] =
                      CASE out = "absent" -> Unresolved(rec)
                        [] out = "remove" -> [rec EXCEPT !.pc = "rm_exists"]
                        [] out = "entry"  -> Resolved(rec, entries[tok])]
               /\ entries' = IF out = "entry"
                             THEN [entries EXCEPT ![tok].consumed = TRUE]
                             ELSE entries
        /\ UNCHANGED <<chat, now, disk, sweep, rmCalls, regArgs, sess, prog>>

HandleFileDownload(r) == \E tok \in Tokens : Handle(r, "files", tok)
HandlePreview(r)      == \E tok \in Tokens : Handle(r, "preview", tok)
HandleDownloadPage(r) == \E tok \in Tokens : Handle(r, "page", tok)

\* _remove called from get: `await aiofiles.os.path.exists(entry.file_path)`
GetRemoveExists(r) ==
    /\ req[r].pc = "rm_exists"
    /\ req' = [req EXCEPT ![r] =
           IF entries[req[r].tok].file_path \in disk
           THEN [@ EXCEPT !.pc = "rm_remove"]
           ELSE Unresolved(@)]
    /\ UNCHANGED <<chat, now, entries, map, disk, sweep, rmCalls, regArgs, sess, prog>>

\* _remove called from get: `await aiofiles.os.remove(entry.file_path)`,
\* then get returns None and the handler answers 404
GetRemoveFile(r) ==
    /\ req[r].pc = "rm_remove"
    /\ \E ok \in BOOLEAN :
          LET p == entries[req[r].tok].file_path IN
          /\ disk' = OsRemove(p, ok)
          /\ req' = [req EXCEPT ![r] =
                 Unresolved([@ EXCEPT !.err = OnOSError(RemoveFailed(p, ok))])]
    /\ rmCalls' = [rmCalls EXCEPT ![req[r].tok].expiry = @ + 1]
    /\ UNCHANGED <<chat, now, entries, map, sweep, sess, regArgs, prog>>

\* the landing page's get(entry.audio_token) found the sibling expired:
\* _remove's `await aiofiles.os.path.exists(entry.file_path)`
PageAudioExists(r) ==
    /\ req[r].pc = "pa_exists"
    /\ LET sib == entries[req[r].tok].audio_token IN
       req' = [req EXCEPT ![r] =
           IF entries[sib].file_path \in disk
           THEN [@ EXCEPT !.pc = "pa_remove"]
           ELSE Rendered(@, FALSE)]
    /\ UNCHANGED <<chat, now, entries, map, disk, sweep, rmCalls, sess, regArgs, prog>>

\* _remove's `await aiofiles.os.remove(entry.file_path)` for the sibling;
\* get returns None and the page is rendered without the audio button
PageAudioRemove(r) ==
    /\ req[r].pc = "pa_remove"
    /\ LET sib == entries[req[r].tok].audio_token
           p   == entries[sib].file_path
       IN  /\ \E ok \in BOOLEAN :
                 /\ disk' = OsRemove(p, ok)
                 /\ req' = [req EXCEPT ![r] =
                        Rendered([@ EXCEPT !.err =
                                     OnOSError(RemoveFailed(p, ok))], FALSE)]
           /\ rmCalls' = [rmCalls EXCEPT ![sib].expiry = @ + 1]
    /\ UNCHANGED <<chat, now, entries, map, sweep, sess, regArgs, prog>>

\* `async with aiofiles.open(path, "rb") as f`: a missing file raises, the
\* handler swallows the exception and returns the prepared response
OpenFile(r) ==
    /\ req[r].pc = "open"
    /\ req' = [req EXCEPT ![r].pc =
           IF entries[req[r].tok].file_path \in disk THEN "stream" ELSE "done"]
    /\ UNCHANGED <<chat, now, entries, map, disk, sweep, rmCalls, regArgs, sess, prog>>

\* one `chunk = await f.read(...)` / `await response.write(chunk)` round
WriteChunk(r) ==
    /\ req[r].pc = "stream"
    /\ req[r].sent < NChunks
    /\ req' = [req EXCEPT ![r].sent = @ + 1]
    /\ UNCHANGED <<chat, now, entries, map, disk, sweep, rmCalls, regArgs, sess, prog>>

\* mutant: consume is called in a `finally`, so also when the write raised
WriteFailsConsumes(r) ==
    /\ req[r].pc = "stream"
    /\ req[r].sent < NChunks
    /\ req' = [req EXCEPT ![r].pc = "done"]
    /\ entries' = [entries EXCEPT ![req[r].tok].consumed = TRUE]
    /\ UNCHANGED <<chat, now, map, disk, sweep, rmCalls, regArgs, sess, prog>>

\* the write raises (client disconnected): `except Exception: pass`
WriteFails(r) ==
    /\ req[r].pc = "stream"
    /\ req[r].sent < NChunks
    /\ req' = [req EXCEPT ![r].pc = "done"]
    /\ UNCHANGED <<chat, now, entries, map, disk, sweep, rmCalls, regArgs, sess, prog>>

\* the read returns b"", the file is closed and consume(token) runs up to
\* its first suspension
ConsumeBegin(r) ==
    /\ req[r].pc = "stream"
    /\ req[r].sent = NChunks
    /\ LET tok == req[r].tok IN
       IF ConsumeSkips(tok)
       THEN /\ req' = [req EXCEPT ![r].pc = "done"]
            /\ UNCHANGED <<entries, rmCalls, regArgs>>
       ELSE /\ entries' = [entries EXCEPT ![tok].consumed = TRUE]
            /\ rmCalls' = [rmCalls EXCEPT ![tok].wins = @ + 1]
            /\ req' = [req EXCEPT ![r].pc = "c_exists"]
    /\ UNCHANGED <<chat, now, map, disk, sweep, sess, regArgs, prog>>

\* mutant: consume marks the entry and returns without deleting the file
ConsumeExistsSkipped(r) ==
    /\ req[r].pc = "c_exists"
    /\ req' = [req EXCEPT ![r].pc = "done"]
    /\ UNCHANGED <<chat, now, entries, map, disk, sweep, rmCalls, regArgs, sess, prog>>

\* consume: `if await aiofiles.os.path.exists(entry.file_path):`
ConsumeExists(r) ==
    /\ req[r].pc = "c_exists"
    /\ req' = [req EXCEPT ![r].pc =
           IF entries[req[r].tok].file_path \in disk THEN "c_remove" ELSE "done"]
    /\ UNCHANGED <<chat, now, entries, map, disk, sweep, rmCalls, regArgs, sess, prog>>

\* mutant: a failed deletion rolls the consumed flag back
ConsumeRemoveFileRollsBack(r) ==
    /\ req[r].pc = "c_remove"
    /\ \E ok \in BOOLEAN :
          LET p == entries[req[r].tok].file_path IN
          /\ disk' = OsRemove(p, ok)
          /\ req' = [req EXCEPT ![r].pc = "done",
                                ![r].err = OnOSError(RemoveFailed(p, ok))]
          /\ entries' = [entries EXCEPT ![req[r].tok].consumed =
                                           ~RemoveFailed(p, ok)]
    /\ rmCalls' = [rmCalls EXCEPT ![req[r].tok].consume = @ + 1]
    /\ UNCHANGED <<chat, now, map, sweep, sess, regArgs, prog>>

\* consume: `await aiofiles.os.remove(entry.file_path)`; an OSError is logged
ConsumeRemoveFile(r) ==
    /\ req[r].pc = "c_remove"
    /\ \E ok \in BOOLEAN :
          LET p == entries[req[r].tok].file_path IN
          /\ disk' = OsRemove(p, ok)
          /\ req' = [req EXCEPT ![r].pc = "done",
                                ![r].err = OnOSError(RemoveFailed(p, ok))]
    /\ rmCalls' = [rmCalls EXCEPT ![req[r].tok].consume = @ + 1]
    /\ UNCHANGED <<chat, now, entries, map, sweep, sess, regArgs, prog>>

\* ------------------------------------------------------ cleanup_expired
\* the tokens cleanup_expired collects: the expired ones, in dict order
RECURSIVE ExpiredFrom(_)
ExpiredFrom(tok) ==
    IF tok > Len(entries) THEN <<>>
    ELSE (IF tok \in map /\ Expired(entries[tok], now) THEN <<tok>> ELSE <<>>)
         \o ExpiredFrom(tok + 1)

\* the calls `await self._remove(token, entry)` of the loop, run until one
\* of them suspends on file I/O: every entry passed is popped from the map.
\* Returns the tokens still to do, the first being the one suspended on.
RECURSIVE RunRemoves(_)
RunRemoves(todo) ==
    IF todo = <<>> THEN <<>>
    ELSE IF RemoveDeletes(entries[Head(todo)]) THEN todo
    ELSE RunRemoves(Tail(todo))

Popped(todo, rest) ==
    {todo[i] : i \in 1..(Len(todo) - Len(rest))}
        \cup (IF rest = <<>> THEN {} ELSE {Head(rest)})

\* the loop continues with `todo`, `count` calls of _remove having returned
SweepRun(todo, count, removed) ==
    LET rest == RunRemoves(todo)
        cnt  == count + (Len(todo) - Len(rest))
        rem  == removed + Cardinality(Popped(todo, rest) \cap map)
    IN
    /\ map' = map \ Popped(todo, rest)
    /\ sweep' = [pc      |-> IF rest = <<>> THEN "idle" ELSE "rm_exists",
                 todo    |-> rest,
                 count   |-> cnt,
                 removed |-> rem]

\* cleanup_expired is called by _cleanup_loop and takes its snapshot
CleanupExpired ==
    /\ sweep.pc = "idle"
    /\ ExpiredFrom(1) # <<>>
    /\ SweepRun(ExpiredFrom(1), 0, 0)
    /\ UNCHANGED <<chat, now, entries, disk, req, rmCalls, regArgs, sess, prog>>

SweepExists ==
    /\ sweep.pc = "rm_exists"
    /\ IF entries[Head(sweep.todo)].file_path \in disk
       THEN sweep' = [sweep EXCEPT !.pc = "rm_remove"] /\ map' = map
       ELSE SweepRun(Tail(sweep.todo), sweep.count + 1, sweep.removed)
    /\ UNCHANGED <<chat, now, entries, disk, req, rmCalls, regArgs, sess, prog>>

SweepRemoveFile ==
    /\ sweep.pc = "rm_remove"
    /\ \E ok \in BOOLEAN :
          disk' = OsRemove(entries[Head(sweep.todo)].file_path, ok)
    /\ rmCalls' = [rmCalls EXCEPT ![Head(sweep.todo)].expiry = @ + 1]
    /\ SweepRun(Tail(sweep.todo), sweep.count + 1, sweep.removed)
    /\ UNCHANGED <<chat, now, entries, req, sess, regArgs, prog>>

\* ---------------------------------------------------------- environment
\* check_file_size in the YouTube flow: the downloaded file is over the
\* inline limit and is handed to the registry
HostFile ==
    /\ Len(entries) < MaxTokens
    /\ \E p \in Paths :
          /\ ProducedSize(p) > MAX_FILE_SIZE
          /\ disk' = disk \cup {p}
          /\ Register(p)
    /\ UNCHANGED <<chat, now, req, sweep, sess, prog>>

Tick ==
    /\ now < MaxTicks * FILE_EXPIRY_SECONDS
    /\ now' = now + FILE_EXPIRY_SECONDS
    /\ UNCHANGED <<chat, entries, map, disk, req, sweep, rmCalls, regArgs, sess, prog>>

Next ==
    \/ HostFile
    \/ Tick
    \/ CleanupExpired
    \/ SweepExists
    \/ SweepRemoveFile
    \/ \E r \in Reqs :
          \/ HandleFileDownload(r)
          \/ HandlePreview(r)
          \/ HandleDownloadPage(r)
          \/ GetRemoveExists(r)
          \/ GetRemoveFile(r)
          \/ OpenFile(r)
          \/ WriteChunk(r)
          \/ WriteFails(r)
          \/ ConsumeBegin(r)
          \/ ConsumeExists(r)
          \/ ConsumeRemoveFile(r)

Spec == Init /\ [][Next]_vars

\* _cleanup_loop, started by start_file_server, calls cleanup_expired every
\* 300 s for the life of the process, the clock advances, and the event
\* loop resumes every coroutine whose await has completed
Fairness ==
    /\ WF_vars(Tick)
    /\ WF_vars(CleanupExpired)
    /\ WF_vars(SweepExists)
    /\ WF_vars(SweepRemoveFile)
    /\ \A r \in Reqs : WF_vars(GetRemoveExists(r)) /\ WF_vars(GetRemoveFile(r))

SpecLive == Spec /\ Fairness

\* --------------------------------------------- the registry as a component
\* f'{self.temp_dir}/%(id)s_audio.mp3' (quality 0: the audio rendition)
AudioPath(v) == <<v, 0>>

\* argument tuples of register(file_path, filename, file_size,
\* content_type, expires_seconds): a video and an audio extracted from it
RegisterCalls ==
    { [file_path |-> OutputPath("va", 720), filename |-> "a.mp4",
       file_size |-> 1234, content_type |-> "video",
       expires_seconds |-> FILE_EXPIRY_SECONDS],
      [file_path |-> AudioPath("va"), filename |-> "a.mp3",
       file_size |-> 567, content_type |-> "audio",
       expires_seconds |-> 2 * FILE_EXPIRY_SECONDS] }

\* a caller registers a file, naming a registered entry (or none) as the
\* audio sibling; register does not look at the file
ApiRegister ==
    /\ Len(entries) < MaxTokens
    /\ \E c \in RegisterCalls, audio \in {0} \cup DOMAIN entries :
          RegisterEntry(c.file_path, c.filename, c.file_size,
                        c.content_type, c.expires_seconds, audio)
    /\ UNCHANGED <<chat, now, disk, req, sweep, sess, prog>>

\* the caller's download writes the file it registers
ProduceFile ==
    /\ \E c \in RegisterCalls :
          /\ c.file_path \notin disk
          /\ disk' = disk \cup {c.file_path}
    /\ UNCHANGED <<chat, now, entries, map, req, sweep, rmCalls, sess, regArgs, prog>>

NextApi ==
    \/ ApiRegister
    \/ ProduceFile
    \/ Tick
    \/ CleanupExpired
    \/ SweepExists
    \/ SweepRemoveFile
    \/ \E r \in Reqs :
          \/ HandleFileDownload(r)
          \/ HandlePreview(r)
          \/ HandleDownloadPage(r)
          \/ GetRemoveExists(r)
          \/ GetRemoveFile(r)
          \/ PageAudioExists(r)
          \/ PageAudioRemove(r)
          \/ OpenFile(r)
          \/ WriteChunk(r)
          \/ WriteFails(r)
          \/ ConsumeBegin(r)
          \/ ConsumeExists(r)
          \/ ConsumeRemoveFile(r)

SpecApi == Init /\ [][NextApi]_vars

\* ------------------------------------------- the YouTube download flow
\* state.clear(): the FSM state and the data are dropped
Cleared(rec) ==
    [rec EXCEPT !.state = "none", !.cancelled = FALSE, !.video = "none"]

\* the handler returns after state.clear()
Finished(rec) ==
    [Cleared(rec) EXCEPT !.pc = "idle", !.path = <<>>, !.asked = FALSE]

\* `if file_size > settings.MAX_FILE_SIZE:` in check_file_size
TooLarge(size) == size > MAX_FILE_SIZE

\* youtube_url_handler: the video info is stored and the quality asked for
UrlHandler(s) ==
    /\ sess[s].pc = "idle"
    /\ \E v \in Videos :
          sess' = [sess EXCEPT ![s].video = v,
                               ![s].state = "selecting_quality"]
    /\ UNCHANGED <<chat, now, entries, map, disk, req, sweep, rmCalls, regArgs, prog>>

\* youtube_url_handler, which is registered for every FSM state and so
\* also runs while a download is in progress, when get_video_info times out
\* or raises, or no format fits: `await state.clear()`
UrlHandlerFails(s) ==
    /\ sess[s].state # "none"
    /\ sess' = [sess EXCEPT ![s] = Cleared(@)]
    /\ UNCHANGED <<chat, now, entries, map, disk, req, sweep, rmCalls, regArgs, prog>>

\* youtube_quality_callback -> process_download up to
\* `await ctx.state.set_state(ctx.download_state)` and the download call,
\* which writes to '{temp_dir}/{id}_{quality}p.mp4'
QualityCallback(s) ==
    /\ sess[s].pc = "idle"
    /\ sess[s].state = "selecting_quality"
    /\ \E q \in Qualities :
          sess' = [sess EXCEPT ![s].state = "downloading_video",
                               ![s].pc = "downloading",
                               ![s].path = OutputPath(sess[s].video, q)]
    /\ UNCHANGED <<chat, now, entries, map, disk, req, sweep, rmCalls, regArgs, prog>>

\* mutant: the TikTok state is not a downloading state
DownloadingStatesYouTube == {"downloading_video"}

\* `downloading_states` of cancel_callback (downloading_audio is the state
\* of the audio flow)
DownloadingStates == {"downloading_video", "selecting_format"}

\* the session is inside its download call
InDownload(rec) == rec.pc \in {"downloading", "tt_downloading"}

\* cancel_callback
CancelCallback(s) ==
    /\ sess[s].state # "none"
    /\ sess' = [sess EXCEPT ![s] =
           IF sess[s].state \in DownloadingStates
           THEN [@ EXCEPT !.cancelled = TRUE,
                          !.asked = (@ \/ InDownload(sess[s]))]
           ELSE Cleared(@)]
    /\ UNCHANGED <<chat, now, entries, map, disk, req, sweep, rmCalls, regArgs, prog>>

\* YouTubeVideoDownloader.download returns the path of the file yt-dlp
\* wrote in the executor thread
DownloadVideo(s) ==
    /\ sess[s].pc = "downloading"
    /\ disk' = disk \cup {sess[s].path}
    /\ sess' = [sess EXCEPT ![s].pc = "downloaded"]
    /\ UNCHANGED <<chat, now, entries, map, req, sweep, rmCalls, regArgs, prog>>

\* `if await is_cancelled(ctx.state):` after the download
AfterDownload(s) ==
    /\ sess[s].pc = "downloaded"
    /\ sess' = [sess EXCEPT ![s].pc =
           IF sess[s].cancelled THEN "cancel_exists" ELSE "getsize"]
    /\ UNCHANGED <<chat, now, entries, map, disk, req, sweep, rmCalls, regArgs, prog>>

\* cancelled: `if file_path and await aiofiles.os.path.exists(file_path):`
CancelledExists(s) ==
    /\ sess[s].pc = "cancel_exists"
    /\ sess' = [sess EXCEPT ![s] =
           IF sess[s].path \in disk THEN [@ EXCEPT !.pc = "cancel_remove"]
           ELSE Finished(@)]
    /\ UNCHANGED <<chat, now, entries, map, disk, req, sweep, rmCalls, regArgs, prog>>

\* cancelled: `await aiofiles.os.remove(file_path)`, then (also from the
\* except branch) state.clear()
CancelledRemove(s) ==
    /\ sess[s].pc = "cancel_remove"
    /\ \E ok \in BOOLEAN : disk' = OsRemove(sess[s].path, ok)
    /\ sess' = [sess EXCEPT ![s] = Finished(@)]
    /\ UNCHANGED <<chat, now, entries, map, req, sweep, rmCalls, regArgs, prog>>

\* check_file_size after `await aiofiles.os.path.getsize(file_path)`: a file
\* over the limit is registered (a missing file raises: the except branch of
\* process_download clears the state)
CheckFileSize(s) ==
    /\ sess[s].pc = "getsize"
    /\ IF sess[s].path \notin disk
       THEN /\ sess' = [sess EXCEPT ![s] = Finished(@)]
            /\ UNCHANGED <<entries, map, rmCalls, regArgs>>
       ELSE IF TooLarge(ProducedSize(sess[s].path))
       THEN /\ Len(entries) < MaxTokens
            /\ Register(sess[s].path)
            /\ sess' = [sess EXCEPT ![s].pc = "linking"]
       ELSE /\ sess' = [sess EXCEPT ![s].pc = "sending"]
            /\ UNCHANGED <<entries, map, rmCalls, regArgs>>
    /\ UNCHANGED <<chat, now, disk, req, sweep, prog>>

\* check_file_size: the link is shown, `await ctx.state.clear()`, and
\* process_download returns without touching the file
LinkSent(s) ==
    /\ sess[s].pc = "linking"
    /\ sess' = [sess EXCEPT ![s] = Finished(@)]
    /\ UNCHANGED <<chat, now, entries, map, disk, req, sweep, rmCalls, regArgs, prog>>

\* send_video / send_audio: the file is uploaded to the chat; when the
\* file is missing or the chat API call fails the call raises and the
\* except branch of process_download reports the error and clears the state
SendInline(s) ==
    /\ sess[s].pc = "sending"
    /\ \E ok \in BOOLEAN :
          sess' = [sess EXCEPT ![s] =
              IF sess[s].path \in disk /\ ok THEN [@ EXCEPT !.pc = "sent_exists"]
              ELSE Finished(@)]
    /\ UNCHANGED <<chat, now, entries, map, disk, req, sweep, rmCalls, regArgs, prog>>

\* after sending: `if await aiofiles.os.path.exists(file_path):`
SentExists(s) ==
    /\ sess[s].pc = "sent_exists"
    /\ sess' = [sess EXCEPT ![s] =
           IF sess[s].path \in disk THEN [@ EXCEPT !.pc = "sent_remove"]
           ELSE Finished(@)]
    /\ UNCHANGED <<chat, now, entries, map, disk, req, sweep, rmCalls, regArgs, prog>>

\* after sending: `await aiofiles.os.remove(file_path)`, then state.clear()
SentRemove(s) ==
    /\ sess[s].pc = "sent_remove"
    /\ \E ok \in BOOLEAN : disk' = OsRemove(sess[s].path, ok)
    /\ sess' = [sess EXCEPT ![s] = Finished(@)]
    /\ UNCHANGED <<chat, now, entries, map, req, sweep, rmCalls, regArgs, prog>>

\* the handlers of chat s in the YouTube flow
FlowOf(s) ==
    \/ UrlHandler(s)
    \/ QualityCallback(s)
    \/ CancelCallback(s)
    \/ DownloadVideo(s)
    \/ AfterDownload(s)
    \/ CancelledExists(s)
    \/ CancelledRemove(s)
    \/ CheckFileSize(s)
    \/ LinkSent(s)
    \/ SendInline(s)
    \/ SentExists(s)
    \/ SentRemove(s)

FlowNext == \E s \in Sessions : FlowOf(s)

SpecFlow == Init /\ [][FlowNext]_vars

\* the flow with users who also send links that cannot be resolved
CancelNext ==
    \/ FlowNext
    \/ \E s \in Sessions : UrlHandlerFails(s)

SpecCancel == Init /\ [][CancelNext]_vars

\* -------------------------------------------- the TikTok download flow
\* os.path.join(self.temp_dir, '%(id)s.%(ext)s')
TikTokPath(v) == <<v, 1>>

\* size of the file the TikTok download produces: the one of "va" is one
\* byte over the inline limit, the one of "vb" exactly at it
TikTokSize(p) == IF p[1] = "va" THEN MAX_FILE_SIZE + 1 ELSE MAX_FILE_SIZE

\* video_info['estimated_size']: yt-dlp's filesize, or 0 when it is unknown
EstimatedSizes(p) == {0, TikTokSize(p)}

\* the handler returns without state.clear(): the FSM state and data stay
Returned(rec) == [rec EXCEPT !.pc = "idle", !.path = <<>>, !.asked = FALSE]

\* tiktok_url_handler up to the download call: the pre-check refuses a
\* video whose estimated size is over the limit, otherwise the state is
\* set to selecting_format and the download starts
TikTokUrlHandler(s) ==
    /\ sess[s].pc = "idle"
    /\ \E v \in Videos : \E est \in EstimatedSizes(TikTokPath(v)) :
          sess' = [sess EXCEPT ![s] =
              IF TooLarge(est) THEN Cleared(@)
              ELSE [@ EXCEPT !.video = v, !.state = "selecting_format",
                             !.pc = "tt_downloading",
                             !.path = TikTokPath(v)]]
    /\ UNCHANGED <<chat, now, entries, map, disk, req, sweep, rmCalls, regArgs, prog>>

\* tiktok_dl.download_video returns the path of the file it wrote
TikTokDownload(s) ==
    /\ sess[s].pc = "tt_downloading"
    /\ disk' = disk \cup {sess[s].path}
    /\ sess' = [sess EXCEPT ![s].pc = "tt_downloaded"]
    /\ UNCHANGED <<chat, now, entries, map, req, sweep, rmCalls, regArgs, prog>>

\* `if await is_cancelled(state):` after the download
TikTokAfterDownload(s) ==
    /\ sess[s].pc = "tt_downloaded"
    /\ sess' = [sess EXCEPT ![s].pc =
           IF sess[s].cancelled THEN "tt_cancel_exists" ELSE "tt_getsize"]
    /\ UNCHANGED <<chat, now, entries, map, disk, req, sweep, rmCalls, regArgs, prog>>

\* cancelled: `elif content and await aiofiles.os.path.exists(content):`
TikTokCancelledExists(s) ==
    /\ sess[s].pc = "tt_cancel_exists"
    /\ sess' = [sess EXCEPT ![s] =
           IF sess[s].path \in disk THEN [@ EXCEPT !.pc = "tt_cancel_remove"]
           ELSE Finished(@)]
    /\ UNCHANGED <<chat, now, entries, map, disk, req, sweep, rmCalls, regArgs, prog>>

\* cancelled: `await aiofiles.os.remove(content)`, then (also from the
\* except branch) state.clear()
TikTokCancelledRemove(s) ==
    /\ sess[s].pc = "tt_cancel_remove"
    /\ \E ok \in BOOLEAN : disk' = OsRemove(sess[s].path, ok)
    /\ sess' = [sess EXCEPT ![s] = Finished(@)]
    /\ UNCHANGED <<chat, now, entries, map, req, sweep, rmCalls, regArgs, prog>>

\* handle_video_content -> check_video_size after
\* `await aiofiles.os.path.getsize(file_path)`: a file over the limit is
\* reported as "Video too large" (a missing file raises: the except branch
\* of tiktok_url_handler clears the state)
CheckVideoSize(s) ==
    /\ sess[s].pc = "tt_getsize"
    /\ sess' = [sess EXCEPT ![s] =
           IF sess[s].path \notin disk THEN Finished(@)
           ELSE IF TooLarge(TikTokSize(sess[s].path))
           THEN [@ EXCEPT !.pc = "tt_large_exists"]
           ELSE [@ EXCEPT !.pc = "tt_sending"]]
    /\ UNCHANGED <<chat, now, entries, map, disk, req, sweep, rmCalls, regArgs, prog>>

\* check_video_size, too large: `if await aiofiles.os.path.exists(file_path):`
\* and, the file being absent, `return None`: the handler returns
TooLargeExists(s) ==
    /\ sess[s].pc = "tt_large_exists"
    /\ sess' = [sess EXCEPT ![s] =
           IF sess[s].path \in disk THEN [@ EXCEPT !.pc = "tt_large_remove"]
           ELSE Returned(@)]
    /\ UNCHANGED <<chat, now, entries, map, disk, req, sweep, rmCalls, regArgs, prog>>

\* check_video_size, too large: `await aiofiles.os.remove(file_path)` and
\* `return None` (an OSError reaches the except branch of the handler,
\* which clears the state)
TooLargeRemove(s) ==
    /\ sess[s].pc = "tt_large_remove"
    /\ \E ok \in BOOLEAN :
          /\ disk' = OsRemove(sess[s].path, ok)
          /\ sess' = [sess EXCEPT ![s] =
                 IF RemoveFailed(sess[s].path, ok) THEN Finished(@)
                 ELSE Returned(@)]
    /\ UNCHANGED <<chat, now, entries, map, req, sweep, rmCalls, regArgs, prog>>

\* send_tiktok_video: the file is uploaded to the chat (when the file is
\* missing or the chat API call fails the call raises: the except branch
\* clears the state), then
\* `asyncio.create_task(cleanup_files([file_path], user_id))`
SendTikTokVideo(s) ==
    /\ sess[s].pc = "tt_sending"
    /\ \E ok \in BOOLEAN :
          sess' = [sess EXCEPT ![s] =
              IF sess[s].path \in disk /\ ok THEN [@ EXCEPT !.pc = "tt_cleanup"]
              ELSE Finished(@)]
    /\ UNCHANGED <<chat, now, entries, map, disk, req, sweep, rmCalls, regArgs, prog>>

\* cleanup_files: exists, remove; errors are logged
CleanupFiles(s) ==
    /\ sess[s].pc = "tt_cleanup"
    /\ \E ok \in BOOLEAN : disk' = OsRemove(sess[s].path, ok)
    /\ sess' = [sess EXCEPT ![s] = Returned(@)]
    /\ UNCHANGED <<chat, now, entries, map, req, sweep, rmCalls, regArgs, prog>>

\* the handlers of chat s in the TikTok flow
TikTokOf(s) ==
    \/ TikTokUrlHandler(s)
    \/ CancelCallback(s)
    \/ TikTokDownload(s)
    \/ TikTokAfterDownload(s)
    \/ TikTokCancelledExists(s)
    \/ TikTokCancelledRemove(s)
    \/ CheckVideoSize(s)
    \/ TooLargeExists(s)
    \/ TooLargeRemove(s)
    \/ SendTikTokVideo(s)
    \/ CleanupFiles(s)

TikTokNext == \E s \in Sessions : TikTokOf(s)

SpecTikTok == Init /\ [][TikTokNext]_vars

\* the chats with an odd id are sent YouTube links, the others TikTok links
YouTubeChats == {s \in Sessions : s % 2 = 1}

ChatNext ==
    \/ \E s \in YouTubeChats : FlowOf(s)
    \/ \E s \in Sessions \ YouTubeChats : TikTokOf(s)

SpecChat == Init /\ [][ChatNext]_vars

Abs(x) == IF x < 0 THEN -x ELSE x

\* ------------------------------------------------ the progress callback
\* mutant: only the distance from the last report counts
QualifiesByDistanceOnly(percent, last) ==
    Abs(percent - last) >= CallbackThreshold

\* `if abs(percent - last_percent[0]) >= 5 or percent >= 100:`
Qualifies(percent, last) ==
    Abs(percent - last) >= CallbackThreshold \/ percent >= FullPercent

\* one call callback(percent) of the closure; cancelled is what
\* _is_cancelled(state) returns
Callback(rec, percent, cancelled) ==
    IF rec.stopped THEN rec
    ELSE IF cancelled THEN [rec EXCEPT !.stopped = TRUE]
    ELSE IF Qualifies(percent, rec.cb_last)
         THEN [rec EXCEPT !.cb_last = percent]
         ELSE rec

\* the call callback(percent) reaches update_download_progress
Edits(rec, percent, cancelled) ==
    ~rec.stopped /\ ~cancelled /\ Qualifies(percent, rec.cb_last)

\* _is_cancelled(state): False if no state was given, else the flag
IsCancelledResults(rec) == IF rec.cb = "state" THEN BOOLEAN ELSE {FALSE}

\* create_progress_callback(message, status_text, reply_markup, state)
CreateProgressCallback ==
    /\ prog.pc = "idle"
    /\ prog.cb = "none"
    /\ \E k \in {"plain", "state"} :
          prog' = [prog EXCEPT !.cb = k, !.cb_last = NothingReported,
                              !.stopped = FALSE]
    /\ UNCHANGED <<chat, now, entries, map, disk, req, sweep, rmCalls, sess, regArgs>>

\* the progress source calls the callback with its next value
EmitNext ==
    /\ prog.cb # "none"
    /\ prog.emitted < FullPercent
    /\ \E c \in IsCancelledResults(prog) :
          LET p == prog.emitted + 1 IN
          prog' = [Callback(prog, p, c)
                      EXCEPT !.emitted = p,
                             !.shown = IF Edits(prog, p, c) THEN @ \cup {p}
                                       ELSE @]
    /\ UNCHANGED <<chat, now, entries, map, disk, req, sweep, rmCalls, sess, regArgs>>

ThrottleNext ==
    \/ CreateProgressCallback
    \/ EmitNext

SpecThrottle == Init /\ [][ThrottleNext]_vars

\* ------------------------------------------------- progress reporting
Percents == 0..FullPercent

\* float(d['_percent_str']) as the progress hook receives it: the multiples
\* of PercentStep and the last value before completion
HookPercents == {p \in Percents : p % PercentStep = 0} \cup {FullPercent - 1}

\* the downloaders: YouTubeVideoDownloader and YouTubeAudioDownloader
Downloaders == {"video", "audio"}

\* the threshold of the downloader's update_progress_loop
Threshold(kind) ==
    IF kind = "video" THEN LoopThreshold ELSE AudioLoopThreshold

\* `if abs(current_percent - last_percent) >= 20:` (`>= 2` for audio)
LoopReports(current, last, kind) == Abs(current - last) >= Threshold(kind)

\* download() has returned or raised
Ended(rec) == rec.pc \in {"returned", "raised"}

\* download(url, quality, progress_callback) up to the executor call:
\* progress_state is created and update_progress_loop started as a task
StartDownload ==
    /\ prog.pc = "idle"
    /\ \E k \in Downloaders :
          prog' = [prog EXCEPT !.kind = k, !.pc = "running", !.percent = 0,
                              !.downloading = TRUE, !.task = "ready",
                              !.last = NothingReported, !.cb_err = "none"]
    /\ UNCHANGED <<chat, now, entries, map, disk, req, sweep, rmCalls, sess, regArgs>>

\* progress_hook, status 'downloading', called in the executor thread
ProgressHook ==
    /\ prog.pc = "running"
    /\ \E p \in HookPercents : prog' = [prog EXCEPT !.percent = p]
    /\ UNCHANGED <<chat, now, entries, map, disk, req, sweep, rmCalls, sess, regArgs>>

\* progress_hook, status 'finished'
HookFinished ==
    /\ prog.pc = "running"
    /\ prog.downloading
    /\ prog' = [prog EXCEPT !.downloading = FALSE]
    /\ UNCHANGED <<chat, now, entries, map, disk, req, sweep, rmCalls, sess, regArgs>>

\* update_progress_loop from the loop test to its next await: the callback
\* call, the sleep, or the end of the coroutine
LoopRuns ==
    /\ prog.task = "ready"
    /\ prog' =
         IF ~prog.downloading THEN [prog EXCEPT !.task = "done"]
         ELSE IF LoopReports(prog.percent, prog.last, prog.kind)
         THEN [prog EXCEPT !.task = "calling", !.current = prog.percent,
                           !.late = (@ \/ Ended(prog)),
                           !.called = prog.percent,
                           !.cb_err = IF @ = "raised" THEN "retried" ELSE @]
         ELSE [prog EXCEPT !.task = "sleeping", !.current = prog.percent]
    /\ UNCHANGED <<chat, now, entries, map, disk, req, sweep, rmCalls, sess, regArgs>>

\* mutant: the exception of the callback is not caught inside the loop and
\* ends the task
CallbackReturnsStopping ==
    /\ prog.task = "calling"
    /\ \E ok \in BOOLEAN : \E c \in IsCancelledResults(prog) :
          prog' = IF ~ok THEN [prog EXCEPT !.task = "done",
                                           !.cb_err = "raised"]
                  ELSE [(IF prog.cb = "none" THEN prog
                         ELSE Callback(prog, prog.current, c))
                           EXCEPT !.task = "sleeping", !.last = prog.current,
                                  !.cb_err = "none"]
    /\ UNCHANGED <<chat, now, entries, map, disk, req, sweep, rmCalls, sess, regArgs>>

\* `await progress_callback(current_percent)` returns, or raises an
\* Exception that the loop logs; then the loop sleeps. The callback is the
\* closure of create_progress_callback if the handler created one
CallbackReturns ==
    /\ prog.task = "calling"
    /\ \E ok \in BOOLEAN : \E c \in IsCancelledResults(prog) :
          prog' = IF ~ok THEN [prog EXCEPT !.task = "sleeping",
                                           !.cb_err = "raised"]
                  ELSE [(IF prog.cb = "none" THEN prog
                         ELSE Callback(prog, prog.current, c))
                           EXCEPT !.task = "sleeping", !.last = prog.current,
                                  !.cb_err = "none"]
    /\ UNCHANGED <<chat, now, entries, map, disk, req, sweep, rmCalls, sess, regArgs>>

\* `await asyncio.sleep(0.5)` is over
SleepOver ==
    /\ prog.task = "sleeping"
    /\ prog' = [prog EXCEPT !.task = "ready"]
    /\ UNCHANGED <<chat, now, entries, map, disk, req, sweep, rmCalls, sess, regArgs>>

\* the executor call returns: `progress_state['downloading'] = False` and
\* `await asyncio.wait_for(progress_task, timeout=1.0)`
DownloadReturns ==
    /\ prog.pc = "running"
    /\ prog' = [prog EXCEPT !.downloading = FALSE,
                            !.pc = IF prog.task = "done" THEN "returned"
                                   ELSE "waiting"]
    /\ UNCHANGED <<chat, now, entries, map, disk, req, sweep, rmCalls, sess, regArgs>>

\* the executor call raises (_download_with_ydl: extract_info or download
\* failed): the exception leaves download() through `except ...: raise`
DownloadRaises ==
    /\ prog.pc = "running"
    /\ prog' = [prog EXCEPT !.pc = "raised"]
    /\ UNCHANGED <<chat, now, entries, map, disk, req, sweep, rmCalls, sess, regArgs>>

\* wait_for returns because the task ended by itself
WaitForDone ==
    /\ prog.pc = "waiting"
    /\ prog.task = "done"
    /\ prog' = [prog EXCEPT !.pc = "returned"]
    /\ UNCHANGED <<chat, now, entries, map, disk, req, sweep, rmCalls, sess, regArgs>>

\* the timeout of wait_for elapses while the task is inside the callback
\* (a sleep of 0.5 s ends before the timeout of 1.0 s): wait_for cancels the
\* task and awaits it, CancelledError not being an Exception that the loop
\* or the callback catches, and raises TimeoutError; `progress_task.cancel()`
WaitForTimeout ==
    /\ prog.pc = "waiting"
    /\ prog.task = "calling"
    /\ prog' = [prog EXCEPT !.pc = "returned", !.task = "cancelled"]
    /\ UNCHANGED <<chat, now, entries, map, disk, req, sweep, rmCalls, sess, regArgs>>

ProgressNext ==
    \/ StartDownload
    \/ ProgressHook
    \/ HookFinished
    \/ LoopRuns
    \/ CallbackReturns
    \/ SleepOver
    \/ DownloadReturns
    \/ DownloadRaises
    \/ WaitForDone
    \/ WaitForTimeout

SpecProgress == Init /\ [][ProgressNext]_vars

\* the handler passes the closure it created to download()
StartReportedDownload == prog.cb # "none" /\ StartDownload

\* a download whose progress callback is the closure the handler created
ReportNext ==
    \/ CreateProgressCallback
    \/ StartReportedDownload
    \/ ProgressHook
    \/ HookFinished
    \/ LoopRuns
    \/ CallbackReturns
    \/ SleepOver
    \/ DownloadReturns
    \/ WaitForDone
    \/ WaitForTimeout

SpecReport == Init /\ [][ReportNext]_vars

\* ================================================================ claims
Known(tok) == tok \in DOMAIN entries

FilesReqs(tok) == {r \in Reqs : req[r].kind = "files" /\ req[r].tok = tok}

\* the /files handlers that wrote every chunk of tok's file to the response
Delivered(tok) ==
    {r \in FilesReqs(tok) : req[r].status = 200 /\ req[r].sent = NChunks}

\* the /files handlers whose call of consume(tok) has returned
Consumers(tok) == {r \in Delivered(tok) : req[r].pc = "done"}

\* C1: however many consume(token) calls are made and however they
\* interleave, exactly one of them takes the consumed transition and it alone
\* issues the (single) deletion of the entry's file; every call returns
\* normally, an OSError of the deletion being logged, never raised.
ConsumeDeletesOnce ==
    \A tok \in DOMAIN entries :
        /\ rmCalls[tok].wins = (IF entries[tok].consumed THEN 1 ELSE 0)
        /\ rmCalls[tok].consume <= rmCalls[tok].wins
        /\ (Consumers(tok) # {} /\ tok \in map) => entries[tok].consumed
        /\ \A r \in FilesReqs(tok) : req[r].err \in {"none", "logged"}

\* two consume calls on one token have returned and one deletion was issued
ConsumeTwiceWitness ==
    \E tok \in DOMAIN entries :
        /\ Cardinality(Consumers(tok)) >= 2
        /\ rmCalls[tok].consume = 1
        /\ entries[tok].file_path \notin disk

\* C2: for every token at most one GET /files/{token} request delivers the
\* complete file with status 200, also when several are in flight at once.
SingleDelivery ==
    \A tok \in Tokens : Cardinality(Delivered(tok)) <= 1

\* C3: a get(token) called at now > expiresAt never returns the entry,
\* whether or not a sweep has run; the entry has left the map from the moment
\* get discovers the expiry, before absent is reported.
ExpiryAbsolute ==
    \A r \in Reqs :
        (/\ req[r].kind # "none"
         /\ Known(req[r].tok)
         /\ req[r].t0 > entries[req[r].tok].expires_at)
        => /\ req[r].got # "entry"
           /\ req[r].tok \notin map
           /\ req[r].pc \in {"rm_exists", "rm_remove", "done"}
           /\ req[r].pc = "done" => (req[r].got = "absent" /\ req[r].status = 404)

\* get found the expired entry itself, no sweep having started: the entry is
\* out of the map while the file is still being deleted
LazyExpiryWitness ==
    \E r \in Reqs :
        /\ req[r].pc = "rm_remove"
        /\ req[r].t0 > entries[req[r].tok].expires_at
        /\ req[r].tok \notin map
        /\ sweep.pc = "idle"
        /\ \A tok \in DOMAIN entries : rmCalls[tok].expiry = 0

\* C4: consumed turns true only in the step in which a /files handler that
\* wrote every chunk calls consume, and every such handler does call it; the
\* step in which a write fails changes neither the registry nor the disk; a
\* GET /files on a live, unconsumed entry whose file exists starts a 200
\* stream, a retry after an interrupted transfer included.
ConsumeIffFullyStreamed ==
    [][ /\ \A tok \in DOMAIN entries :
              (~entries[tok].consumed /\ entries'[tok].consumed)
              => \E r \in Reqs :
                    /\ req[r].kind = "files" /\ req[r].tok = tok
                    /\ req[r].pc = "stream" /\ req[r].sent = NChunks
                    /\ req'[r].pc = "c_exists"
        /\ \A r \in Reqs :
              /\ (req[r].pc = "stream" /\ req[r].sent = NChunks
                    /\ req'[r].pc # "stream")
                 => (entries'[req[r].tok].consumed \/ req[r].tok \notin map')
              /\ (req[r].pc \in {"open", "stream"} /\ req[r].sent < NChunks
                    /\ req'[r].pc = "done")
                 => (entries' = entries /\ map' = map /\ disk' = disk
                       /\ rmCalls' = rmCalls)
              /\ (/\ req[r].pc = "idle" /\ req'[r].kind = "files"
                  /\ req'[r].tok \in map
                  /\ now <= entries[req'[r].tok].expires_at
                  /\ ~entries[req'[r].tok].consumed
                  /\ entries[req'[r].tok].file_path \in disk)
                 => (req'[r].pc = "open" /\ req'[r].status = 200)
      ]_vars

\* a transfer was interrupted after the first chunk; the retry, begun after
\* it, delivered the whole file
RetryWitness ==
    \E r1, r2 \in Reqs :
        /\ req[r1].kind = "files" /\ req[r1].pc = "done"
        /\ req[r1].status = 200 /\ req[r1].sent > 0 /\ req[r1].sent < NChunks
        /\ req[r2].kind = "files" /\ req[r2].tok = req[r1].tok
        /\ req[r2].retry /\ req[r2].pc = "done"
        /\ req[r2].status = 200 /\ req[r2].sent = NChunks

\* C5: once a GET /files/{token} has returned from a complete stream, every
\* GET /files/{token} and GET /download/{token} arriving later and not after
\* the expiry is answered 410.
GoneAfterDownload ==
    \A r \in Reqs :
        (/\ req[r].kind \in {"files", "page"}
         /\ req[r].after
         /\ req[r].t0 <= entries[req[r].tok].expires_at)
        => (req[r].pc = "done" /\ req[r].status = 410)

GoneAfterDownloadWitness ==
    \E r \in Reqs :
        /\ req[r].kind = "page" /\ req[r].after
        /\ req[r].t0 <= entries[req[r].tok].expires_at
        /\ req[r].status = 410

\* C6: no step of a GET /preview/{token} handler changes a FileEntry (so
\* none sets consumed), and a preview of an unexpired, unconsumed entry whose
\* file exists is answered 200 and leaves the map, the entry and the disk as
\* they were.
PreviewNeverConsumes ==
    [][ \A r \in Reqs :
          /\ (req'[r] # req[r] /\ req'[r].kind = "preview")
             => (entries' = entries
                   /\ \A tok \in DOMAIN rmCalls :
                         rmCalls'[tok].consume = rmCalls[tok].consume)
          /\ (/\ req[r].pc = "idle" /\ req'[r].kind = "preview"
              /\ req'[r].tok \in map
              /\ now <= entries[req'[r].tok].expires_at
              /\ ~entries[req'[r].tok].consumed
              /\ entries[req'[r].tok].file_path \in disk)
             => (/\ req'[r].pc = "done" /\ req'[r].status = 200
                 /\ entries' = entries /\ map' = map /\ disk' = disk)
      ]_vars

\* two previews of one token were answered 200; the entry is unconsumed, in
\* the map, and its file is on disk
PreviewTwiceWitness ==
    \E r1, r2 \in Reqs :
        /\ r1 # r2
        /\ req[r1].kind = "preview" /\ req[r1].status = 200
        /\ req[r2].kind = "preview" /\ req[r2].status = 200
        /\ req[r1].tok = req[r2].tok
        /\ req[r1].tok \in map
        /\ ~entries[req[r1].tok].consumed
        /\ entries[req[r1].tok].file_path \in disk

\* C7: over every interleaving of consume, get and cleanup_expired at most
\* one deletion of an entry's file is issued.
SingleDeletionPerEntry ==
    \A tok \in DOMAIN entries :
        rmCalls[tok].consume + rmCalls[tok].expiry <= 1

\* C8 (as stated): in every state a consumed entry has no file at filePath.
ConsumedMeansNoFile ==
    \A tok \in DOMAIN entries :
        entries[tok].consumed => entries[tok].file_path \notin disk

\* C8 (amended): when the consume call that set the flag returns without a
\* deletion error, no file exists at the entry's filePath.
ConsumeLeavesNoFile ==
    [][ \A r \in Reqs :
          (/\ req[r].pc \in {"c_exists", "c_remove"}
           /\ req'[r].pc = "done"
           /\ req'[r].err = "none")
          => entries[req[r].tok].file_path \notin disk'
      ]_vars

\* a consume call deleted the file and returned
ConsumeDeletedWitness ==
    \E r \in Reqs :
        /\ req[r].kind = "files" /\ req[r].pc = "done" /\ req[r].err = "none"
        /\ Known(req[r].tok)
        /\ rmCalls[req[r].tok].consume = 1
        /\ entries[req[r].tok].consumed
        /\ entries[req[r].tok].file_path \notin disk

\* C10 (as stated): get returns an entry only when now < expiresAt.
GetOnlyBeforeExpiry ==
    \A r \in Reqs :
        req[r].got = "entry" => req[r].t0 < entries[req[r].tok].expires_at

\* C10 (amended): get returns an entry only when now <= expiresAt; at the
\* instant now = expiresAt the entry is still returned, and it is absent for
\* every call at now > expiresAt.
GetUntilExpiryInclusive ==
    \A r \in Reqs :
        (req[r].kind # "none" /\ Known(req[r].tok))
        => /\ req[r].got = "entry"
                => req[r].t0 <= entries[req[r].tok].expires_at
           /\ req[r].t0 = entries[req[r].tok].expires_at
                => req[r].got = "entry"
           /\ req[r].t0 > entries[req[r].tok].expires_at
                => req[r].got \in {"none", "absent"}

GetAtExpiryWitness ==
    \E r \in Reqs :
        /\ req[r].got = "entry"
        /\ req[r].t0 = entries[req[r].tok].expires_at

\* C9: no two entries of the registry reference the same filePath, also
\* when two sessions download the same source at the same quality.
ExclusivePathOwnership ==
    \A t1, t2 \in map :
        t1 # t2 => entries[t1].file_path # entries[t2].file_path

\* the entry of tok is in the map and not expired at the current time
Present(tok) == tok \in map /\ ~Expired(entries[tok], now)

\* the terminal response to an absent (unknown or expired) token
AbsentPage(rec) ==
    /\ rec.pc = "done" /\ rec.status = 404
    /\ rec.body = (IF rec.kind = "preview" THEN "Not available."
                                            ELSE "expired.html")

\* C11: the response of a handler is a function of the state of the token
\* when it is resolved and never an internal error: /download and /files
\* answer 404 with the expired page for an unknown or expired token, 410 with
\* the consumed page for a consumed entry, 200 only for a present unconsumed
\* entry; /preview answers 404 for an absent or consumed entry; /files and
\* /preview answer 404 "File no longer available." for a present unconsumed
\* entry whose file is missing.
ResolutionOutcomes ==
    [][ \A r \in Reqs :
          /\ (req[r].pc = "idle" /\ req'[r].pc # "idle") =>
                LET rec == req'[r]
                    tok == rec.tok
                IN  /\ ~Present(tok) =>
                          (rec.pc = "rm_exists" \/ AbsentPage(rec))
                    /\ (Present(tok) /\ entries[tok].consumed) =>
                          /\ rec.pc = "done"
                          /\ rec.kind \in {"page", "files"} =>
                                (rec.status = 410 /\ rec.body = "consumed.html")
                          /\ rec.kind = "preview" =>
                                (rec.status = 404 /\ rec.body = "Not available.")
                    /\ (/\ Present(tok) /\ ~entries[tok].consumed
                        /\ rec.kind \in {"files", "preview"}
                        /\ entries[tok].file_path \notin disk) =>
                          /\ rec.pc = "done" /\ rec.status = 404
                          /\ rec.body = "File no longer available."
                    /\ (/\ Present(tok) /\ ~entries[tok].consumed
                        /\ (rec.kind = "page"
                               \/ entries[tok].file_path \in disk)) =>
                          (rec.status = 200 \/ rec.pc = "pa_exists")
                    /\ rec.status = 200 =>
                          (Present(tok) /\ ~entries[tok].consumed)
          /\ (req[r].pc \in {"rm_exists", "rm_remove"} /\ req'[r].pc = "done")
                => AbsentPage(req'[r])
          /\ req'[r].pc = "done" => req'[r].status \in {200, 404, 410}
      ]_vars

\* a /files request for a present, unconsumed entry whose file is gone was
\* answered 404 "File no longer available."
FileMissingWitness ==
    \E r \in Reqs :
        /\ req[r].kind = "files" /\ req[r].pc = "done"
        /\ req[r].status = 404 /\ req[r].body = "File no longer available."
        /\ req[r].tok \in map
        /\ ~entries[req[r].tok].consumed
        /\ req[r].t0 <= entries[req[r].tok].expires_at

\* r takes a step of the GET /download handler
PageStep(r) == req'[r] # req[r] /\ req'[r].kind = "page"

\* the tokens a GET /download/{tok} looks up: tok and its audio sibling
LookedUp(tok) ==
    IF tok \in DOMAIN entries
    THEN {tok} \cup ({entries[tok].audio_token} \cap DOMAIN entries)
    ELSE {}

\* C12 (as stated): handling GET /download/{token} leaves the map, every
\* consumed flag and every backing file unchanged for every token state,
\* the lookup of the audio sibling included.
PageNeverMutates ==
    [][ \A r \in Reqs :
          PageStep(r) => (map' = map /\ entries' = entries /\ disk' = disk)
      ]_vars

\* C12 (amended): GET /download/{token} changes no consumed flag; it leaves
\* the map and the disk unchanged when neither the token's entry nor its
\* audio sibling's is expired (fresh, consumed and unknown tokens); for an
\* expired entry among the two the only change is get's lazy expiry: the
\* entry leaves the map and, unless it is consumed, the file at its
\* filePath is deleted.
PageOnlyExpires ==
    [][ \A r \in Reqs :
          PageStep(r) =>
            LET lapsed == {t \in LookedUp(req'[r].tok) :
                              Expired(entries[t], now)}
            IN  /\ entries' = entries
                /\ map' \subseteq map
                /\ (map \ map') \subseteq lapsed
                /\ disk' \subseteq disk
                /\ (disk \ disk') \subseteq
                       {entries[t].file_path :
                           t \in {u \in lapsed : ~entries[u].consumed}}
                /\ lapsed = {} => (map' = map /\ disk' = disk)
      ]_vars

\* a landing page request of a live video entry is deleting the file of
\* its expired audio sibling, which has left the map
PageExpiresSiblingWitness ==
    \E r \in Reqs :
        /\ req[r].kind = "page" /\ req[r].pc = "pa_remove"
        /\ req[r].tok \in map
        /\ entries[req[r].tok].audio_token \notin map
        /\ entries[entries[req[r].tok].audio_token].file_path \in disk

\* C13: the landing page of a video entry registered with audio_token X
\* holds the download button of X exactly when X's entry is in the map,
\* unexpired and unconsumed at the moment the page is rendered; a present,
\* unconsumed video entry's page is answered 200 whatever the state of X.
AudioSiblingButton ==
    [][ \A r \in Reqs :
          LET tok == req'[r].tok
              X   == entries[tok].audio_token
          IN  /\ (/\ req[r].pc # "done" /\ req'[r].pc = "done"
                  /\ req'[r].body = "download.html"
                  /\ entries[tok].content_type = "video"
                  /\ X # 0)
                 => (req'[r].btn <=> (Present(X) /\ ~entries[X].consumed))
              /\ (/\ req[r].pc = "idle" /\ req'[r].kind = "page"
                  /\ Present(tok) /\ ~entries[tok].consumed)
                 => \/ req'[r].pc = "pa_exists"
                    \/ (req'[r].status = 200
                           /\ req'[r].body = "download.html")
              /\ (req[r].pc \in {"pa_exists", "pa_remove"}
                    /\ req'[r].pc # req[r].pc)
                 => \/ req'[r].pc = "pa_remove"
                    \/ (req'[r].pc = "done" /\ req'[r].status = 200
                           /\ req'[r].body = "download.html")
      ]_vars

\* the page of a video entry was rendered (200) without the audio button,
\* its sibling being in the map and unexpired, but consumed
SiblingConsumedWitness ==
    \E r \in Reqs :
        /\ req[r].kind = "page" /\ req[r].pc = "done" /\ req[r].status = 200
        /\ ~req[r].btn
        /\ entries[req[r].tok].content_type = "video"
        /\ LET X == entries[req[r].tok].audio_token IN
              /\ X \in map
              /\ entries[X].consumed
              /\ req[r].t0 <= entries[X].expires_at
              /\ rmCalls[X].consume = 1

\* the entry e holds what register was called with, a
Stores(e, a) ==
        /\ e.file_path = a.file_path
        /\ e.filename = a.filename
        /\ e.file_size = a.file_size
        /\ e.content_type = a.content_type
        /\ e.audio_token = a.audio_token
        /\ e.created_at = a.at
        /\ e.expires_at - e.created_at = a.expires_seconds

AsRegistered(tok) == Stores(entries[tok], regArgs[tok])

\* C14: a get(token) before the expiry of a registered token returns the
\* entry, which holds exactly the registered filePath, filename, fileSize
\* and contentType, expiresAt - createdAt = ttl, and consumed = false as long
\* as no consume took place; a register call creates or touches no file,
\* changes no other entry and adds its token to the map only.
RegistryRoundTrip ==
    [][ /\ \A r \in Reqs :
              (/\ req[r].pc = "idle" /\ req'[r].pc # "idle"
               /\ req'[r].tok \in map
               /\ now <= regArgs[req'[r].tok].at
                            + regArgs[req'[r].tok].expires_seconds)
              => /\ req'[r].got = "entry"
                 /\ AsRegistered(req'[r].tok)
                 /\ rmCalls[req'[r].tok].wins = 0
                       => ~entries[req'[r].tok].consumed
        /\ Len(entries') > Len(entries)
              => /\ disk' = disk
                 /\ Len(entries') = Len(entries) + 1
                 /\ \A t \in DOMAIN entries : entries'[t] = entries[t]
                 /\ map' = map \cup {Len(entries')}
                 /\ Stores(entries'[Len(entries')], regArgs'[Len(entries')])
                 /\ ~entries'[Len(entries')].consumed
      ]_vars

\* a get one tick after the registration of the entry with the longer
\* lifetime returned it
RoundTripWitness ==
    \E r \in Reqs :
        /\ req[r].got = "entry"
        /\ regArgs[req[r].tok].expires_seconds = 2 * FILE_EXPIRY_SECONDS
        /\ req[r].t0 > regArgs[req[r].tok].at
        /\ entries[req[r].tok].filename = "a.mp3"
        /\ entries[req[r].tok].file_size = 567

\* r calls consume(token): its stream is complete and it leaves the loop
ConsumeCall(r) ==
    req[r].pc = "stream" /\ req[r].sent = NChunks /\ req'[r].pc # "stream"

\* C15: the consumed flag never returns to false; a consume call on a
\* consumed entry or on a token that is not in the map returns at once and
\* changes neither the entries, the map, the disk nor the deletions issued,
\* also after a first call whose deletion failed; only a call that finds
\* the flag unset goes on to delete the file.
ConsumeIdempotent ==
    [][ /\ \A tok \in DOMAIN entries :
              entries[tok].consumed => entries'[tok].consumed
        /\ \A r \in Reqs :
              ConsumeCall(r) =>
                IF req[r].tok \notin map \/ entries[req[r].tok].consumed
                THEN /\ req'[r].pc = "done"
                     /\ entries' = entries /\ map' = map
                     /\ disk' = disk /\ rmCalls' = rmCalls
                ELSE /\ req'[r].pc = "c_exists"
                     /\ entries'[req[r].tok].consumed
      ]_vars

\* the first consume's deletion failed with an OSError; a second consume
\* returned: the flag is still set, the file is still there and no second
\* deletion was issued
ConsumeAfterFailureWitness ==
    \E tok \in DOMAIN entries : \E r1, r2 \in Consumers(tok) :
        /\ r1 # r2
        /\ req[r1].err = "logged"
        /\ entries[tok].consumed
        /\ entries[tok].file_path \in disk
        /\ rmCalls[tok].consume = 1
        /\ rmCalls[tok].expiry = 0

\* the entries of the snapshot whose _remove has not been called yet
Waiting == IF sweep.todo = <<>> THEN {}
           ELSE {sweep.todo[i] : i \in 2..Len(sweep.todo)}

\* C20: cleanup_expired removes from the map the entries with
\* now > expires_at and no other, deletes the file of a removed entry only
\* if it is not consumed, and returns the number of entries it removed,
\* also when a get on an expired token runs concurrently with it.
SweepCountsRemoved ==
    [][ sweep' # sweep =>
          /\ map' \subseteq map
          /\ \A t \in map \ map' : Expired(entries[t], now)
          /\ sweep.pc = "idle" =>
                \A t \in map' : Expired(entries[t], now) => t \in Waiting'
          /\ \A t \in Waiting \ Waiting' : t \notin map'
          /\ \A p \in disk \ disk' :
                /\ sweep.pc = "rm_remove"
                /\ p = entries[Head(sweep.todo)].file_path
                /\ ~entries[Head(sweep.todo)].consumed
          /\ sweep'.pc = "idle" => sweep'.count = sweep'.removed
      ]_vars

\* s's download handler takes a step
FlowStep(s) == sess'[s].pc # sess[s].pc

\* C18: a Cancel pressed while the download call is running does not abort
\* the call; when the call has returned the handler finds the cancelled
\* flag, deletes the downloaded file, sends nothing inline, registers
\* nothing, and returns with the session state cleared.
CancelDiscardsDownload ==
    [][ \A s \in Sessions :
          /\ (sess[s].pc = "downloading" /\ ~sess[s].asked /\ sess'[s].asked)
                => (sess'[s].pc = "downloading" /\ disk' = disk)
          /\ (sess[s].asked /\ FlowStep(s)) =>
                /\ sess'[s].pc \in {"downloaded", "cancel_exists",
                                    "cancel_remove", "idle"}
                /\ entries' = entries
                /\ sess'[s].pc = "idle" => sess'[s].state = "none"
                /\ (sess[s].pc = "cancel_remove" /\ sess[s].path \in disk)
                      => (sess[s].path \notin disk' \/ disk' = disk)
      ]_vars

\* the size of the file a download handler is about to check
CheckedSize(rec) ==
    IF rec.pc = "getsize" THEN ProducedSize(rec.path) ELSE TikTokSize(rec.path)

\* C19: in the download flow of every platform, the size check of a
\* produced file that is larger than the inline limit registers the file
\* and leads to the link message; the file is neither sent inline nor
\* deleted by the flow.
OversizeIsRegistered ==
    [][ \A s \in Sessions :
          (/\ sess[s].pc \in {"getsize", "tt_getsize"}
           /\ FlowStep(s)
           /\ sess[s].path \in disk
           /\ TooLarge(CheckedSize(sess[s]))) =>
                /\ Len(entries') = Len(entries) + 1
                /\ entries'[Len(entries')].file_path = sess[s].path
                /\ Len(entries') \in map'
                /\ sess'[s].pc = "linking"
                /\ disk' = disk
      ]_vars

\* C16: the reporting task never outlives the download: when download()
\* has ended, the task that runs the reporting loop is finished or
\* cancelled, and the loop invokes no progress callback after that.
ReportingTaskEnds ==
    Ended(prog) => (prog.task \in {"done", "cancelled"} /\ ~prog.late)

\* the value reported last before p, among the reports S
ReportedBefore(S, p) ==
    LET B == {q \in S : q < p} IN
    IF B = {} THEN NothingReported
    ELSE CHOOSE q \in B : \A x \in B : x <= q

\* C17: with the source emitting 0, 1, 2, ..., 100 to the progress callback
\* (threshold 5), the UI is updated only at values that are 5 or more away
\* from the value reported last, each such value is reported while the
\* callback is live, and the value 100 is reported when it is emitted.
ProgressThrottled ==
    /\ \A p \in prog.shown :
          \/ p - ReportedBefore(prog.shown, p) >= CallbackThreshold
          \/ p = FullPercent
    /\ ~prog.stopped =>
          \A p \in 0..prog.emitted :
              p - ReportedBefore(prog.shown, p) >= CallbackThreshold
                 => p \in prog.shown
    /\ (prog.emitted = FullPercent /\ ~prog.stopped)
          => FullPercent \in prog.shown

\* the whole series was emitted: the last report before 100 was at 99
FinalReportWitness ==
    /\ prog.emitted = FullPercent
    /\ ~prog.stopped
    /\ FullPercent \in prog.shown
    /\ ReportedBefore(prog.shown, FullPercent) = FullPercent - 1
    /\ Cardinality(prog.shown) = (FullPercent \div CallbackThreshold) + 1

\* tok is in the registry with its lifetime over
ExpiredLive(tok) == tok \in map /\ Expired(entries[tok], now)

\* C21 (as stated): an entry whose TTL has elapsed is eventually removed
\* from the registry and, unless it was consumed, its backing file is
\* eventually deleted.
ExpiredEntryAndFileGo ==
    \A tok \in Tokens :
        ExpiredLive(tok) ~>
            (/\ Known(tok) /\ tok \notin map
             /\ (entries[tok].consumed \/ entries[tok].file_path \notin disk))

\* C21 (amended): an entry whose TTL has elapsed is eventually removed from
\* the registry, consumed or not; unless it was consumed, the removal finds
\* no file at its path or issues one deletion of the file, whose failure
\* leaves the file on disk.
ExpiredEntryGoes ==
    \A tok \in Tokens :
        ExpiredLive(tok) ~>
            (/\ Known(tok) /\ tok \notin map
             /\ \/ entries[tok].consumed
                \/ entries[tok].file_path \notin disk
                \/ rmCalls[tok].expiry > 0)

\* the sweep removed an expired, never consumed entry and deleted its file
SweptWitness ==
    \E tok \in DOMAIN entries :
        /\ tok \notin map
        /\ ~entries[tok].consumed
        /\ Expired(entries[tok], now)
        /\ rmCalls[tok].expiry = 1
        /\ entries[tok].file_path \notin disk
        /\ sweep.pc = "idle" /\ sweep.removed >= 1

\* the reporting loop polls: from its loop test to its next await
Polls == prog.task = "ready" /\ prog'.task # "ready"

\* the percent polled is a change the loop has to report: it is the
\* threshold or more away from the last reported percent, or it has
\* reached 100 and was not reported
QualifyingChange ==
    \/ Abs(prog.percent - prog.last) >= Threshold(prog.kind)
    \/ prog.percent >= FullPercent /\ prog.percent # prog.last

\* C22: a poll of the reporting loop invokes the progress callback exactly
\* when the percent differs from the last reported percent by the threshold
\* or more, or has reached 100, and never passes the callback the value it
\* passed in the call before.
ReportsOncePerChange ==
    [][ (Polls /\ prog.downloading) =>
           /\ (prog'.task = "calling") = QualifyingChange
           /\ prog'.task = "calling" => prog.percent # prog.called
      ]_vars

\* C23: within a download session the percent values surfaced to the UI
\* never decrease, whatever values the download hook writes.
UiMonotone ==
    [][ prog'.cb_last >= prog.cb_last ]_vars

\* s's handler leaves through its `except Exception` branch: the size check
\* or the send step raised
Fails(s) ==
    /\ sess[s].pc \in {"getsize", "sending", "tt_getsize", "tt_sending"}
    /\ sess'[s].pc = "idle"

\* C24: when a step of a session's handler raises, the stored session state
\* is cleared and the output file the session produced is no longer on
\* disk.
FailureCleansUp ==
    [][ \A s \in Sessions :
          Fails(s) => /\ sess'[s].state = "none"
                      /\ ~sess'[s].cancelled
                      /\ sess[s].path \notin disk'
      ]_vars

StartsDownload(s) ==
    /\ sess[s].pc = "idle"
    /\ sess'[s].pc \in {"downloading", "tt_downloading"}

\* C26: every download session starts with the cancelled flag false, so
\* that a cancel of an earlier session never makes the handler discard the
\* download of a later one.
SessionStartsUncancelled ==
    [][ \A s \in Sessions : StartsDownload(s) => ~sess'[s].cancelled ]_vars

\* request r of the /files route has opened the backing file and has not
\* finished streaming it
Streaming(r) ==
    /\ req[r].kind = "files"
    /\ req[r].pc = "stream"
    /\ entries[req[r].tok].file_path \in disk

\* an expiry removal (_remove called by get or by cleanup_expired) makes its
\* os.remove call for tok in this step
ExpiryRemoves(tok) == rmCalls'[tok].expiry > rmCalls[tok].expiry

\* C27: while a /files stream of a token is in progress, an expiry removal
\* of that token does not delete the backing file.
StreamKeepsFile ==
    [][ \A r \in Reqs :
           Streaming(r) /\ ExpiryRemoves(req[r].tok)
               => entries[req[r].tok].file_path \in disk' ]_vars

\* the callback call of the loop raised in this step
CallbackRaised == prog.task = "calling" /\ prog'.cb_err = "raised"

\* the loop, a callback call of which raised last, polls in this step
PollsAfterRaise ==
    /\ prog.cb_err = "raised"
    /\ prog.task = "ready"
    /\ prog'.task # "ready"

\* C30: when the progress callback raises, the reporting loop keeps
\* running (it goes to its sleep and then to its next poll), the
\* last-reported percent is unchanged, and the next poll calls the callback
\* again with the current percent if the threshold condition holds and
\* downloading is true.
RaisingCallbackRetried ==
    [][ /\ CallbackRaised =>
              prog'.task = "sleeping" /\ prog'.last = prog.last
        /\ prog.cb_err = "raised" /\ prog.task = "sleeping"
              /\ prog'.task # "sleeping" => prog'.task = "ready"
        /\ PollsAfterRaise /\ prog.downloading
              /\ LoopReports(prog.percent, prog.last, prog.kind) =>
                  prog'.task = "calling" /\ prog'.called = prog.percent ]_vars

\* the loop is calling the callback again after a call of it raised
RetriedWitness == prog.cb_err = "retried" /\ prog.task = "calling"

\* ------------------------------- progress edits of a cancellable download
\* the chat whose download is followed
EditChat == 1

\* the closure process_download creates, before its first call
FreshCallback == [NoProgress EXCEPT !.cb = "state"]

\* process_download: `create_progress_callback(ctx.callback.message,
\* ctx.status_text, cancel_kb, ctx.state)`, up to the await that follows
ProcessDownloadBegins ==
    /\ sess[EditChat].pc = "idle"
    /\ sess[EditChat].state = "selecting_quality"
    /\ prog # FreshCallback
    /\ prog' = FreshCallback
    /\ UNCHANGED <<chat, now, entries, map, disk, req, sweep, rmCalls, sess, regArgs>>

\* process_download goes on to set_state(download_state) and the download
\* call, which is given the closure
EditedQualityCallback == prog = FreshCallback /\ QualityCallback(EditChat)

\* the running download calls callback(percent): the closure runs up to
\* its return or, through update_download_progress and safe_edit_message,
\* to `await message.edit_caption(...)`
CallbackCalled ==
    /\ sess[EditChat].pc = "downloading"
    /\ prog.cb = "state"
    /\ prog.edit = "none"
    /\ \E p \in HookPercents :
          LET c == sess[EditChat].cancelled IN
          prog' = IF Edits(prog, p, c)
                  THEN [prog EXCEPT !.emitted = p, !.edit = "caption"]
                  ELSE [Callback(prog, p, c) EXCEPT !.emitted = p]
    /\ UNCHANGED <<chat, now, entries, map, disk, req, sweep, rmCalls, sess, regArgs>>

\* edit_caption returns (the message is a photo with a caption), or raises
\* (the message is a text message, or the request failed):
\* `except Exception`, then `await message.edit_text(...)`
EditCaptionReturns ==
    /\ prog.edit = "caption"
    /\ \E ok \in BOOLEAN :
          prog' = IF ok THEN [prog EXCEPT !.edit = "none",
                                          !.cb_last = prog.emitted]
                  ELSE [prog EXCEPT !.edit = "text"]
    /\ UNCHANGED <<chat, now, entries, map, disk, req, sweep, rmCalls, sess, regArgs>>

\* edit_text returns or raises (`except Exception`); safe_edit_message
\* returns and the closure sets `last_percent[0] = percent`
EditTextReturns ==
    /\ prog.edit = "text"
    /\ prog' = [prog EXCEPT !.edit = "none", !.cb_last = prog.emitted]
    /\ UNCHANGED <<chat, now, entries, map, disk, req, sweep, rmCalls, sess, regArgs>>

EditNext ==
    \/ UrlHandler(EditChat)
    \/ ProcessDownloadBegins
    \/ EditedQualityCallback
    \/ CallbackCalled
    \/ EditCaptionReturns
    \/ EditTextReturns
    \/ CancelCallback(EditChat)
    \/ DownloadVideo(EditChat)
    \/ AfterDownload(EditChat)
    \/ CancelledExists(EditChat)
    \/ CancelledRemove(EditChat)
    \/ CheckFileSize(EditChat)
    \/ LinkSent(EditChat)
    \/ SendInline(EditChat)
    \/ SentExists(EditChat)
    \/ SentRemove(EditChat)

SpecEdit == Init /\ [][EditNext]_vars

\* a request that edits the status message with the progress is sent in
\* this step
EditIssued == prog'.edit \notin {prog.edit, "none"}

\* C29: once the cancelled flag of the session is set no progress edit of
\* the status message is issued for the download, and once the callback has
\* observed the flag (stopped) none is issued either, whatever the flag is
\* then.
NoEditAfterCancel ==
    [][ sess[EditChat].cancelled \/ prog.stopped => ~EditIssued ]_vars

\* the part about the latch only: after the callback has observed the flag
\* it issues no edit
StoppedNeverEdits == [][ prog.stopped => ~EditIssued ]_vars

\* ------------------------------ concurrent selection callbacks of a chat
\* state.clear() by task h, which then returns
ChatCleared(h) ==
    [chat EXCEPT !.state = "none", !.data = FALSE,
                 !.pc[h] = "idle", !.dl[h] = "none"]

\* ThrottlingMiddleware.__call__: `get_request_count(...) >= rate_limit`
Throttled == chat.requests >= RateLimit

\* youtube_url_handler, registered for every FSM state: update_data(
\* video_info, url, ...) and set_state(YouTubeState.selecting_quality)
YouTubeUrl ==
    /\ chat' = [chat EXCEPT !.state = "selecting_quality", !.data = TRUE]
    /\ UNCHANGED <<now, entries, map, disk, req, sweep, rmCalls, sess, regArgs,
                   prog>>

\* a quality or audio selection callback query is dispatched to a new task:
\* the filter YouTubeState.selecting_quality, the throttling middleware,
\* then youtube_quality_callback / youtube_audio_callback up to
\* `await callback.answer()`
SelectionCallback(h) ==
    /\ chat.pc[h] = "idle"
    /\ chat.state = "selecting_quality"
    /\ ~Throttled
    /\ \E k \in Downloaders :
          chat' = [chat EXCEPT !.requests = @ + 1,
                               !.pc[h] = "answer", !.dl[h] = k]
    /\ UNCHANGED <<now, entries, map, disk, req, sweep, rmCalls, sess, regArgs,
                   prog>>

\* the entry of the throttle cache is older than `period`
PeriodOver ==
    /\ chat.requests > 0
    /\ chat' = [chat EXCEPT !.requests = 0]
    /\ UNCHANGED <<now, entries, map, disk, req, sweep, rmCalls, sess, regArgs,
                   prog>>

\* callback.answer() returns; validate_session; with a session,
\* process_download up to `await safe_edit_message(...)`, without one up
\* to `await callback.message.edit_text("Session expired...")`
AnswerReturns(h) ==
    /\ chat.pc[h] = "answer"
    /\ chat' = [chat EXCEPT !.pc[h] = IF chat.data THEN "editing"
                                      ELSE "expired"]
    /\ UNCHANGED <<now, entries, map, disk, req, sweep, rmCalls, sess, regArgs,
                   prog>>

\* validate_session: `await state.clear()`, `return None`
SessionExpired(h) ==
    /\ chat.pc[h] = "expired"
    /\ chat' = ChatCleared(h)
    /\ UNCHANGED <<now, entries, map, disk, req, sweep, rmCalls, sess, regArgs,
                   prog>>

\* safe_edit_message returns: `await ctx.state.set_state(
\* ctx.download_state)` and the download call is made
DownloadStarts(h) ==
    /\ chat.pc[h] = "editing"
    /\ chat' = [chat EXCEPT !.pc[h] = "downloading",
                            !.state = IF chat.dl[h] = "video"
                                      THEN "downloading_video"
                                      ELSE "downloading_audio"]
    /\ UNCHANGED <<now, entries, map, disk, req, sweep, rmCalls, sess, regArgs,
                   prog>>

\* download_video / download_audio returns or raises; process_download
\* goes on to its awaits after the download
DownloadEnds(h) ==
    /\ chat.pc[h] = "downloading"
    /\ chat' = [chat EXCEPT !.pc[h] = "after"]
    /\ UNCHANGED <<now, entries, map, disk, req, sweep, rmCalls, sess, regArgs,
                   prog>>

\* process_download ends: every path after the download calls
\* `await ctx.state.clear()`
ProcessDownloadEnds(h) ==
    /\ chat.pc[h] = "after"
    /\ chat' = ChatCleared(h)
    /\ UNCHANGED <<now, entries, map, disk, req, sweep, rmCalls, sess, regArgs,
                   prog>>

SelectNext ==
    \/ YouTubeUrl
    \/ PeriodOver
    \/ \E h \in Handlers :
          \/ SelectionCallback(h)
          \/ AnswerReturns(h)
          \/ SessionExpired(h)
          \/ DownloadStarts(h)
          \/ DownloadEnds(h)
          \/ ProcessDownloadEnds(h)

SpecSelect == Init /\ [][SelectNext]_vars

\* the tasks of the chat that are inside the download call
InFlight == {h \in Handlers : chat.pc[h] = "downloading"}

\* C28: for one chat session at most one YouTube download is in flight at
\* a time, in every interleaving of two selection callbacks.
OneDownloadInFlight == Cardinality(InFlight) <= 1

\* the part about the FSM state only: a selection callback that arrives
\* while the state is downloading_video or downloading_audio starts no
\* handler
LateSelectionFiltered ==
    [][ \A h \in Handlers :
           chat.pc[h] = "idle" /\ chat'.pc[h] # "idle"
               => chat.state = "selecting_quality" ]_vars

====
